---- MODULE Spec2Model ----
(***************************************************************************)
(* Event distribution layer of the LinkedIn post agent: the gateway's      *)
(* WebSocket server (src/gateway/src/index.js), its per-client             *)
(* subscription map and the bridge that forwards Redis pub/sub messages    *)
(* to the WebSocket clients; the workflow orchestrator and its run ledger  *)
(* (spec sections 3 to 5); the client's useAgentStream hook                *)
(* (src/frontend/src/pages/SettingsPage.tsx) with the page that uses it;   *)
(* the client's WebSocketService (src/frontend/src/types/index.ts); and    *)
(* authStore with the axios interceptors (src/frontend/src/store/          *)
(* authStore.ts, src/frontend/src/services/api.ts).                        *)
(***************************************************************************)
EXTENDS Integers, Sequences, FiniteSets, TLC

(* ---- bounds ---- *)
NConns == 2        \* WebSocket connection slots
NRuns  == 1        \* agent runs (one channel each)
NIds   == 2        \* values Math.random().toString(36).substring(7) can take
MaxPub == 2        \* events one run publishes, the terminal one included
NProjects == 2     \* projects

Conns == 1..NConns
Runs  == 1..NRuns
Ids   == 1..NIds
NoRun == 0         \* a message without run_id (undefined / "" is falsy)

VARIABLES
  readyState,           \* ws.readyState of each connection slot
  linkUp,               \* FALSE while the peer of an OPEN socket is gone
  clientId,             \* the clientId captured by each connection's closures
  clientSubscriptions,  \* Map clientId -> Set of channels
  upstream,             \* channels redisSub is subscribed to
  redisQueue,           \* publications on their way to redisSub.on('message')
  runState,             \* state of each run at the publisher
  pubSeq,               \* number of events each run has published
  delivered,            \* per channel, the agent_event frames that reached
                        \* the client of each socket that is OPEN with its
                        \* peer present, in arrival order
  out,                  \* frames passed to ws.send in the last step
  upCalls,              \* channels passed to redisSub.subscribe in the last step
  lastOp,               \* the handler that ran in the last step, and the run
                        \* its input named
  subscribed,           \* the runs each connection holds a 'subscribed'
                        \* acknowledgement for and has not unsubscribed from
  (* workflow orchestrator *)
  runs,                 \* the Run Ledger: AgentRun records in creation order
  startResult,          \* outcome of the last startRun call
  lastTransition,       \* the orchestrator transition taken in the last step
  script,               \* responses seeded into the Agent Invoker, per role
  (* useAgentStream and ProjectDetailPage *)
  stream,               \* the hook's React state
  handlers,             \* runs for which wsService holds a handler of the hook
  reloadTimer,          \* TRUE while setTimeout(load, 1000) is pending
  lastEvent,            \* the event the hook's handler was last called with
  (* WebSocketService of the client *)
  client,               \* the fields of wsService, the WebSocket objects it
                        \* has created and the reconnect timers it has set
  urlValid,             \* FALSE when new WebSocket(url) throws
  askedOn,              \* per run, the socket that was this.ws when
                        \* subscribe(runId) was last called (0: none)
  wanted,               \* runs a subscribe frame was sent for and no
                        \* unsubscribe has been asked for since
  disconnected,         \* TRUE from disconnect() to the next call of
                        \* connect() by a user of the service
  wsOp,                 \* the method or socket event of the last step
  (* authStore and the axios interceptors *)
  storage,              \* localStorage: whether access_token and
                        \* refresh_token are present
  auth,                 \* the state of useAuthStore
  calls,                \* the requests made through api that are in flight,
                        \* each with the store method that awaits it
  navigating,           \* TRUE from window.location.href = '/login' until
                        \* the page has been loaded again
  signedOut,            \* TRUE from logout() or a failed loadUser() to the
                        \* next login or registration that succeeds
  lastAuth              \* what the last step did and how the call settled

gatewayVars == <<readyState, linkUp, clientId, clientSubscriptions, upstream,
                 redisQueue, runState, pubSeq, delivered, out, upCalls, lastOp,
                 subscribed>>

orchVars == <<runs, startResult, lastTransition, script>>

streamVars == <<stream, handlers, reloadTimer, lastEvent>>

clientVars == <<client, urlValid, askedOn, wanted, disconnected, wsOp>>

authVars == <<storage, auth, calls, navigating, signedOut, lastAuth>>

vars == <<gatewayVars, orchVars, streamVars, clientVars, authVars>>

(* ---- helpers ---- *)
Channel(r) == <<"agent_run", r>>
Channels == {Channel(r) : r \in Runs}

NoOut == [c \in Conns |-> <<>>]

NoneDelivered == [ch \in Channels |-> <<>>]

Op(o, r) == [op |-> o, run |-> r]

(* Map operations on clientSubscriptions *)
MapSet(m, k, v) == [x \in (DOMAIN m) \cup {k} |-> IF x = k THEN v ELSE m[x]]
MapDelete(m, k) == [x \in (DOMAIN m) \ {k} |-> m[x]]
MapHas(m, k)    == k \in DOMAIN m

(* the clientIds that live sockets or Map keys hold *)
UsedIds == {clientId[c] : c \in {d \in Conns : readyState[d] # "CLOSED"}}
             \cup DOMAIN clientSubscriptions

InitGateway ==
  /\ readyState = [c \in Conns |-> "CLOSED"]
  /\ linkUp = [c \in Conns |-> TRUE]
  /\ clientId = [c \in Conns |-> 1]
  /\ clientSubscriptions = <<>>
  /\ upstream = {}
  /\ redisQueue = <<>>
  /\ runState = [r \in Runs |-> "idle"]
  /\ pubSeq = [r \in Runs |-> 0]
  /\ delivered = [c \in Conns |-> NoneDelivered]
  /\ out = NoOut
  /\ upCalls = {}
  /\ lastOp = Op("init", NoRun)
  /\ subscribed = [c \in Conns |-> {}]

(* wss.on('connection'): a new socket gets a random clientId, a fresh empty *)
(* Set under that key, its handlers, and the welcome frame. Closed slots    *)
(* carry no state and unused ids are interchangeable, so the lowest closed  *)
(* slot is taken and the id is one in use or the lowest unused one.         *)
Connection(c, id) ==
  /\ readyState[c] = "CLOSED"
  /\ \A d \in Conns : d < c => readyState[d] # "CLOSED"
  /\ \A j \in Ids : j < id => j \in UsedIds
  /\ readyState' = [readyState EXCEPT ![c] = "OPEN"]
  /\ linkUp' = [linkUp EXCEPT ![c] = TRUE]
  /\ clientId' = [clientId EXCEPT ![c] = id]
  /\ clientSubscriptions' = MapSet(clientSubscriptions, id, {})
  /\ delivered' = [delivered EXCEPT ![c] = NoneDelivered]
  /\ out' = [NoOut EXCEPT ![c] = <<[type |-> "connected", clientId |-> id]>>]
  /\ upCalls' = {}
  /\ lastOp' = Op("connection", NoRun)
  /\ UNCHANGED subscribed
  /\ UNCHANGED <<orchVars, streamVars, clientVars, authVars>>
  /\ UNCHANGED <<upstream, redisQueue, runState, pubSeq>>

(* ws.on('message'), msg.type === 'subscribe' && msg.run_id: the channel is *)
(* added to the Set found under clientId unless it is already there; only  *)
(* then redisSub.subscribe is called and the acknowledgement sent.         *)
Subscribe(c, r) ==
  LET channel == Channel(r)
      id      == clientId[c]
      fresh   == MapHas(clientSubscriptions, id)
                   /\ channel \notin clientSubscriptions[id]
  IN
  /\ readyState[c] = "OPEN"
  /\ clientSubscriptions' =
       IF fresh
       THEN [clientSubscriptions EXCEPT ![id] = @ \cup {channel}]
       ELSE clientSubscriptions
  /\ upstream' = IF fresh THEN upstream \cup {channel} ELSE upstream
  /\ upCalls' = IF fresh THEN {channel} ELSE {}
  /\ out' = IF fresh
            THEN [NoOut EXCEPT ![c] =
                    <<[type |-> "subscribed", channel |-> channel, run_id |-> r]>>]
            ELSE NoOut
  /\ lastOp' = Op("subscribe", r)
  /\ subscribed' = [subscribed EXCEPT ![c] = IF fresh THEN @ \cup {r} ELSE @]
  /\ UNCHANGED <<orchVars, streamVars, clientVars, authVars>>
  /\ UNCHANGED <<readyState, linkUp, clientId, redisQueue, runState,
                 pubSeq, delivered>>

(* ws.on('message'), msg.type === 'unsubscribe' && msg.run_id: the channel *)
(* is deleted from the Set found under clientId; nothing else happens.     *)
Unsubscribe(c, r) ==
  LET channel == Channel(r)
      id      == clientId[c]
  IN
  /\ readyState[c] = "OPEN"
  /\ clientSubscriptions' =
       IF MapHas(clientSubscriptions, id)
       THEN [clientSubscriptions EXCEPT ![id] = @ \ {channel}]
       ELSE clientSubscriptions
  /\ out' = NoOut
  /\ upCalls' = {}
  /\ lastOp' = Op("unsubscribe", r)
  /\ subscribed' = [subscribed EXCEPT ![c] = @ \ {r}]
  /\ UNCHANGED <<orchVars, streamVars, clientVars, authVars>>
  /\ UNCHANGED <<readyState, linkUp, clientId, upstream, redisQueue,
                 runState, pubSeq, delivered>>

(* ws.on('message'), msg.type === 'ping': answered with a pong frame. *)
Ping(c) ==
  /\ readyState[c] = "OPEN"
  /\ out' = [NoOut EXCEPT ![c] = <<[type |-> "pong"]>>]
  /\ upCalls' = {}
  /\ lastOp' = Op("ping", NoRun)
  /\ UNCHANGED subscribed
  /\ UNCHANGED <<orchVars, streamVars, clientVars, authVars>>
  /\ UNCHANGED <<readyState, linkUp, clientId, clientSubscriptions,
                 upstream, redisQueue, runState, pubSeq, delivered>>

(* ws.on('message') with a subscribe or unsubscribe frame whose run_id is   *)
(* missing or empty, with another type, or with text that is not JSON      *)
(* (caught and logged): nothing changes and nothing is sent.               *)
Ignored(c) ==
  /\ readyState[c] = "OPEN"
  /\ out' = NoOut
  /\ upCalls' = {}
  /\ lastOp' = Op("ignored", NoRun)
  /\ UNCHANGED subscribed
  /\ UNCHANGED <<orchVars, streamVars, clientVars, authVars>>
  /\ UNCHANGED <<readyState, linkUp, clientId, clientSubscriptions,
                 upstream, redisQueue, runState, pubSeq, delivered>>

(* The peer of an OPEN socket disappears; the server has not noticed yet,  *)
(* so ws.send is still accepted and the frame is lost. Nothing reaches     *)
(* this client any more: what it had received is no longer tracked.        *)
PeerLost(c) ==
  /\ readyState[c] = "OPEN"
  /\ linkUp[c]
  /\ linkUp' = [linkUp EXCEPT ![c] = FALSE]
  /\ delivered' = [delivered EXCEPT ![c] = NoneDelivered]
  /\ out' = NoOut
  /\ upCalls' = {}
  /\ lastOp' = Op("peerlost", NoRun)
  /\ UNCHANGED subscribed
  /\ UNCHANGED <<orchVars, streamVars, clientVars, authVars>>
  /\ UNCHANGED <<readyState, clientId, clientSubscriptions, upstream,
                 redisQueue, runState, pubSeq>>

(* The closing handshake starts (readyState 2); for a lost peer the socket *)
(* error comes first and ws.on('error') only logs it. A closing socket is  *)
(* sent nothing more: what its client had received is no longer tracked.   *)
Closing(c) ==
  /\ readyState[c] = "OPEN"
  /\ readyState' = [readyState EXCEPT ![c] = "CLOSING"]
  /\ linkUp' = [linkUp EXCEPT ![c] = TRUE]
  /\ delivered' = [delivered EXCEPT ![c] = NoneDelivered]
  /\ out' = NoOut
  /\ upCalls' = {}
  /\ lastOp' = Op("closing", NoRun)
  /\ UNCHANGED subscribed
  /\ UNCHANGED <<orchVars, streamVars, clientVars, authVars>>
  /\ UNCHANGED <<clientId, clientSubscriptions, upstream,
                 redisQueue, runState, pubSeq>>

(* ws.on('close'): the Map entry under clientId is deleted; the socket     *)
(* leaves wss.clients. The socket object is garbage from here on: its slot *)
(* is put back to the initial values.                                      *)
Close(c) ==
  /\ readyState[c] \in {"OPEN", "CLOSING"}
  /\ readyState' = [readyState EXCEPT ![c] = "CLOSED"]
  /\ clientSubscriptions' = MapDelete(clientSubscriptions, clientId[c])
  /\ delivered' = [delivered EXCEPT ![c] = NoneDelivered]
  /\ out' = NoOut
  /\ upCalls' = {}
  /\ lastOp' = Op("close", NoRun)
  /\ subscribed' = [subscribed EXCEPT ![c] = {}]
  /\ UNCHANGED <<orchVars, streamVars, clientVars, authVars>>
  /\ linkUp' = [linkUp EXCEPT ![c] = TRUE]
  /\ clientId' = [clientId EXCEPT ![c] = 1]
  /\ UNCHANGED <<upstream, redisQueue, runState, pubSeq>>

(* The backend accepts a generation request and returns the run id        *)
(* (projectsAPI.generate resolves with task_id); the run starts.           *)
StartRun(r) ==
  /\ runState[r] = "idle"
  /\ runState' = [runState EXCEPT ![r] = "running"]
  /\ out' = NoOut
  /\ upCalls' = {}
  /\ lastOp' = Op("startRun", r)
  /\ UNCHANGED subscribed
  /\ UNCHANGED <<orchVars, streamVars, clientVars, authVars>>
  /\ UNCHANGED <<readyState, linkUp, clientId, clientSubscriptions,
                 upstream, redisQueue, pubSeq, delivered>>

StepTypes == {"agent_step", "evaluation_complete"}
TerminalTypes == {"workflow_complete", "workflow_error"}

(* the project a run belongs to *)
ProjectOf(r) == ((r - 1) % NProjects) + 1

Event(r, n, t) ==
  [type |-> t, run_id |-> r, project_id |-> ProjectOf(r), seq |-> n]

(* The running run publishes its next event on agent_run:<run_id>; a       *)
(* terminal event ends the run, and the last event MaxPub allows is        *)
(* terminal. Redis pub/sub hands a publication only to the subscriptions   *)
(* that exist at that moment and keeps no history.                         *)
Publish(r, t) ==
  LET n == pubSeq[r] + 1 IN
  /\ runState[r] = "running"
  /\ n <= MaxPub
  /\ n = MaxPub => t \in TerminalTypes
  /\ pubSeq' = [pubSeq EXCEPT ![r] = n]
  /\ runState' = [runState EXCEPT ![r] =
                    IF t = "workflow_complete" THEN "completed"
                    ELSE IF t = "workflow_error" THEN "failed" ELSE @]
  /\ redisQueue' =
       IF Channel(r) \in upstream
       THEN Append(redisQueue, [channel |-> Channel(r), message |-> Event(r, n, t)])
       ELSE redisQueue
  /\ out' = NoOut
  /\ upCalls' = {}
  /\ lastOp' = Op("publish", r)
  /\ UNCHANGED subscribed
  /\ UNCHANGED <<orchVars, streamVars, clientVars, authVars>>
  /\ UNCHANGED <<readyState, linkUp, clientId, clientSubscriptions,
                 upstream, delivered>>

(* client.readyState === 1 *)
IsOpen(c) == readyState[c] = "OPEN"

(* wss.clients: the sockets that have connected and not yet closed *)
Clients == {c \in Conns : readyState[c] # "CLOSED"}

(* variant: the loop gives up as soon as it meets a socket that is not OPEN *)
DispatchTargetsAbort(cs) == IF \E c \in cs : ~IsOpen(c) THEN {} ELSE cs

(* wss.clients.forEach: the clients the loop body sends to *)
DispatchTargets(cs) == {c \in cs : IsOpen(c)}

(* for (const [cid, subs] of clientSubscriptions.entries()) if (subs.has(channel)): *)
(* the number of times the inner loop body runs for one client             *)
SendsPerClient(channel) ==
  Cardinality({cid \in DOMAIN clientSubscriptions :
                 channel \in clientSubscriptions[cid]})

(* variant: the frame takes the type of the event it carries *)
AgentEventRetyped(channel, message) ==
  [type |-> message.type, channel |-> channel, data |-> message]

(* the frame both branches of the try/catch build: data is the parsed      *)
(* payload, or the text itself when it is not JSON                         *)
AgentEvent(channel, message) ==
  [type |-> "agent_event", channel |-> channel, data |-> message]

(* variant: the newest frame overtakes the ones sent before it *)
WsSendFront(sent, frame) == <<frame>> \o sent

(* client.send appends the frame to what the socket has been given *)
WsSend(sent, frame) == Append(sent, frame)

RECURSIVE SendTimes(_, _, _)
SendTimes(sent, frame, n) ==
  IF n = 0 THEN sent ELSE SendTimes(WsSend(sent, frame), frame, n - 1)

(* redisSub.on('message'): one publication is forwarded. *)
OnRedisMessage ==
  /\ redisQueue # <<>>
  /\ LET channel == Head(redisQueue).channel
         message == Head(redisQueue).message
         frame   == AgentEvent(channel, message)
         targets == DispatchTargets(Clients)
         n       == SendsPerClient(channel)
     IN
     /\ out' = [c \in Conns |->
                  IF c \in targets THEN SendTimes(<<>>, frame, n) ELSE <<>>]
     /\ delivered' = [c \in Conns |->
                  IF c \in targets /\ linkUp[c]
                  THEN [delivered[c] EXCEPT ![channel] = SendTimes(@, frame, n)]
                  ELSE delivered[c]]
     /\ lastOp' = Op("dispatch", message.run_id)
     /\ UNCHANGED subscribed
     /\ UNCHANGED <<orchVars, streamVars, clientVars, authVars>>
  /\ redisQueue' = Tail(redisQueue)
  /\ upCalls' = {}
  /\ UNCHANGED <<readyState, linkUp, clientId, clientSubscriptions,
                 upstream, runState, pubSeq>>

Next ==
  \/ \E c \in Conns, id \in Ids : Connection(c, id)
  \/ \E c \in Conns, r \in Runs : Subscribe(c, r)
  \/ \E c \in Conns, r \in Runs : Unsubscribe(c, r)
  \/ \E c \in Conns : Ping(c)
  \/ \E c \in Conns : Ignored(c)
  \/ \E c \in Conns : PeerLost(c)
  \/ \E c \in Conns : Closing(c)
  \/ \E c \in Conns : Close(c)
  \/ \E r \in Runs : StartRun(r)
  \/ \E r \in Runs, t \in StepTypes \cup TerminalTypes : Publish(r, t)
  \/ OnRedisMessage

(* ======================================================================= *)
(* useAgentStream (SettingsPage.tsx) and ProjectDetailPage (part_000)      *)
(* ======================================================================= *)

NStreamRuns    == 2   \* run ids the page can be handed by generate/regenerate
MaxSubs        == 2   \* calls of useAgentStream.subscribe
MaxStreamSteps == 2   \* agent_step events shown at once
MaxTimers      == 2   \* setTimeout(load, 1000) timers pending at once

StreamRuns == 1..NStreamRuns

Missing == "undefined"          \* a field the event does not carry
Null    == "null"

(* JavaScript truthiness of a string-or-undefined field *)
Falsy(v) == v \in {Missing, Null, ""}

(* a || b *)
OrElse(a, b) == IF Falsy(a) THEN b ELSE a

(* a ?? b *)
Coalesce(a, b) == IF a \in {Missing, Null} THEN b ELSE a

NoData == [type |-> Missing]   \* an AgentEvent whose data field is absent

(* event.data of the AgentEvents the handler can be called with *)
EventData ==
  {NoData}
  \cup {[type |-> "agent_step", agent |-> a, step |-> n] :
          a \in {Missing, "writer"}, n \in {Missing, "3"}}
  \cup {[type |-> "evaluation_complete", groundedness_score |-> g] :
          g \in {Missing, "4"}}
  \cup {[type |-> "workflow_complete", final_post |-> f, groundedness_score |-> g] :
          f \in {Missing, "", "post"}, g \in {Missing, "4"}}
  \cup {[type |-> "workflow_error", error |-> e] :
          e \in {Missing, "", "boom"}}

NoEvent == [run |-> 0, data |-> NoData]

(* useState initial values *)
InitialStream ==
  [steps |-> <<>>, isRunning |-> FALSE, currentAgent |-> Null,
   finalPost |-> Null, error |-> Null, groundednessScore |-> Null]

InitStream ==
  /\ stream = InitialStream
  /\ handlers = <<>>
  /\ reloadTimer = 0
  /\ lastEvent = NoEvent

(* the decimal numeral of a small step count, as d.step carries it *)
Numeral(n) == CASE n = 1 -> "1" [] n = 2 -> "2" [] n = 3 -> "3" [] OTHER -> "4"

(* the entry setSteps appends *)
StreamStep(prev, d) ==
  [step  |-> OrElse(d.step, Numeral(Len(prev) + 1)),
   agent |-> OrElse(d.agent, "unknown")]

(* const handler = (event) => { ... }: the state after one call *)
Handler(st, d) ==
  IF d = NoData THEN st
  ELSE CASE d.type = "agent_step" ->
              [st EXCEPT !.currentAgent = OrElse(d.agent, Null),
                         !.steps = Append(@, StreamStep(@, d))]
         [] d.type = "evaluation_complete" ->
              [st EXCEPT !.groundednessScore = Coalesce(d.groundedness_score, Null)]
         [] d.type = "workflow_complete" ->
              [st EXCEPT !.isRunning = FALSE,
                         !.currentAgent = Null,
                         !.finalPost = OrElse(d.final_post, Null),
                         !.groundednessScore = Coalesce(d.groundedness_score, Null)]
         [] d.type = "workflow_error" ->
              [st EXCEPT !.isRunning = FALSE,
                         !.currentAgent = Null,
                         !.error = OrElse(d.error, "Unknown error occurred")]
         [] OTHER -> st

(* the handlers wsService holds under run:<r>, in registration order *)
HandlersOf(r) == {i \in DOMAIN handlers : handlers[i].live /\ handlers[i].run = r}

RECURSIVE HandlerTimes(_, _, _)
HandlerTimes(st, d, n) ==
  IF n = 0 THEN st ELSE HandlerTimes(Handler(st, d), d, n - 1)

(* useEffect(..., [agentStream.finalPost, agentStream.error, load]): the   *)
(* number of timers the effect starts after a render                      *)
ReloadEffect(old, new) ==
  IF (new.finalPost # old.finalPost \/ new.error # old.error)
     /\ (~Falsy(new.finalPost) \/ ~Falsy(new.error))
  THEN 1 ELSE 0

(* handleGenerate / handleRegenerate once the request has resolved:        *)
(* agentStream.subscribe(data.task_id) resets the state, registers a new   *)
(* handler and overwrites cleanupRef.                                      *)
HookSubscribe(r) ==
  LET new == [stream EXCEPT !.steps = <<>>, !.isRunning = TRUE,
                            !.finalPost = Null, !.error = Null,
                            !.groundednessScore = Null]
  IN
  /\ Len(handlers) < MaxSubs
  /\ stream' = new
  /\ handlers' = Append(handlers, [run |-> r, live |-> TRUE])
  /\ reloadTimer' = reloadTimer + ReloadEffect(stream, new)
  /\ lastEvent' = NoEvent
  /\ UNCHANGED <<gatewayVars, orchVars, clientVars, authVars>>

(* reset(): cleanupRef.current removes the handler registered last *)
HookReset ==
  /\ handlers' = IF handlers = <<>> THEN handlers
                 ELSE [handlers EXCEPT ![Len(handlers)].live = FALSE]
  /\ stream' = InitialStream
  /\ reloadTimer' = reloadTimer + ReloadEffect(stream, InitialStream)
  /\ lastEvent' = NoEvent
  /\ UNCHANGED <<gatewayVars, orchVars, clientVars, authVars>>

(* wsService emits an agent_event of run r under run:<r>: every handler    *)
(* registered for r runs, React renders, and the reload effect runs.       *)
StreamEvent(r, d) ==
  LET new == HandlerTimes(stream, d, Cardinality(HandlersOf(r))) IN
  /\ HandlersOf(r) # {}
  /\ reloadTimer < MaxTimers
  /\ d.type = "agent_step" => Len(stream.steps) + Cardinality(HandlersOf(r)) <= MaxStreamSteps
  /\ stream' = new
  /\ reloadTimer' = reloadTimer + ReloadEffect(stream, new)
  /\ lastEvent' = [run |-> r, data |-> d]
  /\ UNCHANGED handlers
  /\ UNCHANGED <<gatewayVars, orchVars, clientVars, authVars>>

(* a reload timer fires: load() fetches the project *)
Load ==
  /\ reloadTimer > 0
  /\ reloadTimer' = reloadTimer - 1
  /\ lastEvent' = NoEvent
  /\ UNCHANGED <<stream, handlers>>
  /\ UNCHANGED <<gatewayVars, orchVars, clientVars, authVars>>

NextStream ==
  \/ \E r \in StreamRuns : HookSubscribe(r)
  \/ HookReset
  \/ \E r \in StreamRuns, d \in EventData : StreamEvent(r, d)
  \/ Load

(* ======================================================================= *)
(* Workflow orchestrator and Run Ledger (spec sections 3, 4.1, 4.2, 5, 7)  *)
(* ======================================================================= *)

MaxRuns    == 1    \* AgentRuns the ledger holds while every response is open
MaxStarts  == 2    \* AgentRuns the ledger holds under the round-trip responses
MaxReEval  == 1    \* re-evaluations of one completed run
MaxScript  == 2    \* Critic verdicts seeded into the Agent Invoker
MaxEmitRuns == 2   \* AgentRuns the ledger holds while observers come and go

MaxRevisions == 5  \* write/critique cycles a run may consume

Projects == 1..NProjects

Roles == {"supervisor", "researcher", "writer", "critic", "evaluator"}

(* what the Agent Invoker can answer to an invocation of each role; "fail" *)
(* stands for InvocationError and for a timeout                            *)
Responses(role) ==
  CASE role = "supervisor" -> {"research", "fail"}
    [] role = "critic"     -> {"approve", "revise", "fail"}
    [] OTHER               -> {"ok", "fail"}

(* an Agent Invoker without seeded responses answers anything *)
Unscripted == [role \in Roles |-> <<>>]

(* the invocations of role a run has recorded *)
Invocations(run, role) ==
  Cardinality({i \in DOMAIN run.steps : run.steps[i].agent_name = role})

(* the responses the Agent Invoker can give to the next invocation of role *)
(* in run: anything when nothing is seeded for the role, else the seeded   *)
(* response at that position, the last one being repeated from then on     *)
Available(run, role) ==
  LET seeded == script[role]
      k      == Invocations(run, role) + 1
  IN IF seeded = <<>> THEN Responses(role)
     ELSE {seeded[IF k < Len(seeded) THEN k ELSE Len(seeded)]}

(* what becomes of a publication on the channel of a run: it is delivered  *)
(* to subscribers, nobody is subscribed, or the delivery fails             *)
DeliveryModes == {"delivered", "nobody", "failing"}

NewRun(p) ==
  [project |-> p, status |-> "running", phase |-> "init",
   total_revisions |-> 0, error_message |-> "", steps |-> <<>>,
   events |-> <<>>, in_flight |-> 0, listeners |-> "delivered"]

RunIds == DOMAIN runs

Transition(o, r, resp) == [op |-> o, run |-> r, resp |-> resp]

InitOrch ==
  /\ runs = <<>>
  /\ startResult = [project |-> 0, result |-> "none"]
  /\ lastTransition = Transition("init", 0, "none")
  /\ script = Unscripted

(* variant: the check for an active run is skipped *)
HasActiveRunStale(p) == FALSE

(* the project has a run whose status is running *)
HasActiveRun(p) ==
  \E r \in RunIds : runs[r].project = p /\ runs[r].status = "running"

(* the projects that have a run in the ledger *)
UsedProjects == {runs[r].project : r \in RunIds}

(* startRun(projectContext): check-then-create, one critical section per   *)
(* project; cap is the number of runs the ledger is let hold. Projects     *)
(* without runs are interchangeable, so the request names a project that   *)
(* has runs or the lowest one that has none.                               *)
startRun(p, cap) ==
  /\ \A q \in Projects : q < p => q \in UsedProjects
  /\ IF HasActiveRun(p)
     THEN /\ startResult' = [project |-> p, result |-> "ConflictError"]
          /\ UNCHANGED runs
     ELSE /\ Len(runs) < cap
          /\ runs' = Append(runs, NewRun(p))
          /\ startResult' = [project |-> p, result |-> "created"]
  /\ lastTransition' = Transition("startRun", 0, "none")
  /\ UNCHANGED script
  /\ UNCHANGED <<gatewayVars, streamVars, clientVars, authVars>>

(* variant: the new step takes the number of the step before it *)
NextStepNumberRepeat(steps) == IF steps = <<>> THEN 1 ELSE Len(steps)

(* the step_number the next AgentStep of a run gets *)
NextStepNumber(steps) == Len(steps) + 1

(* variant: the new step replaces the last one *)
AppendStepOver(run, agent, decision) ==
  LET n    == IF run.steps = <<>> THEN 1 ELSE Len(run.steps)
      step == [agent_name |-> agent, step_number |-> n, decision |-> decision]
  IN [run EXCEPT !.steps = IF @ = <<>> THEN <<step>> ELSE [@ EXCEPT ![n] = step],
                 !.events = Append(@, "agent_step")]

(* variant: a publication that cannot be delivered fails the run *)
EmitOrFail(run, type) ==
  IF run.listeners = "failing"
  THEN [run EXCEPT !.status = "failed", !.phase = "failed",
                   !.error_message = "DeliveryError"]
  ELSE [run EXCEPT !.events = Append(@, type)]

(* Event Emitter publish(runId, projectId, eventBody): fire-and-forget, the *)
(* publication is made whoever listens and whatever becomes of it           *)
Emit(run, type) == [run EXCEPT !.events = Append(@, type)]

(* a phase transition appends exactly one AgentStep recording the agent's  *)
(* outcome and publishes one agent_step event                              *)
AppendStep(run, agent, decision) ==
  Emit([run EXCEPT !.steps = Append(@, [agent_name |-> agent,
                                        step_number |-> NextStepNumber(@),
                                        decision |-> decision])],
       "agent_step")

(* an Agent Invoker failure: the step is recorded with an error decision,  *)
(* the run becomes Failed with the failure in error_message, and the       *)
(* terminal failure event is published                                     *)
Failed(run, agent) ==
  Emit([AppendStep(run, agent, "error") EXCEPT
          !.status = "failed", !.phase = "failed",
          !.error_message = "InvocationError"],
       "workflow_error")

(* the phases in which the task of a run invokes an agent *)
AgentPhases == {"init", "research", "write", "critique", "evaluate"}

(* variant: an invocation is issued whatever is outstanding *)
CanInvokeAlways(run) == TRUE

(* the task issues an invocation only when none of the run is outstanding *)
CanInvoke(run) == run.in_flight = 0

(* the invocation of the run returned or failed *)
Returned(run) == [run EXCEPT !.in_flight = @ - 1]

(* the task of a running run hands the agent of its phase to the Agent     *)
(* Invoker                                                                 *)
Invoke(r) ==
  /\ r \in RunIds /\ runs[r].status = "running"
  /\ runs[r].phase \in AgentPhases
  /\ CanInvoke(runs[r])
  /\ runs' = [runs EXCEPT ![r].in_flight = @ + 1]
  /\ lastTransition' = Transition("invoke", r, "none")
  /\ UNCHANGED <<startResult, script>>
  /\ UNCHANGED <<gatewayVars, streamVars, clientVars, authVars>>

(* Init: the Supervisor decides the next phase; with no findings yet the   *)
(* deterministic rule routes to research                                   *)
Supervise(r, resp) ==
  /\ r \in RunIds /\ runs[r].status = "running" /\ runs[r].phase = "init"
  /\ runs[r].in_flight > 0
  /\ resp \in Available(runs[r], "supervisor")
  /\ runs' = [runs EXCEPT ![r] = Returned(
       IF resp = "fail" THEN Failed(@, "supervisor")
       ELSE [AppendStep(@, "supervisor", "research") EXCEPT !.phase = "research"])]
  /\ lastTransition' = Transition("supervise", r, resp)
  /\ UNCHANGED <<startResult, script>>
  /\ UNCHANGED <<gatewayVars, streamVars, clientVars, authVars>>

(* Research: findings recorded -> Write *)
Research(r, resp) ==
  /\ r \in RunIds /\ runs[r].status = "running" /\ runs[r].phase = "research"
  /\ runs[r].in_flight > 0
  /\ resp \in Available(runs[r], "researcher")
  /\ runs' = [runs EXCEPT ![r] = Returned(
       IF resp = "fail" THEN Failed(@, "researcher")
       ELSE [AppendStep(@, "researcher", "ok") EXCEPT !.phase = "write"])]
  /\ lastTransition' = Transition("research", r, resp)
  /\ UNCHANGED <<startResult, script>>
  /\ UNCHANGED <<gatewayVars, streamVars, clientVars, authVars>>

(* Write: a draft is recorded -> Critique *)
Write(r, resp) ==
  /\ r \in RunIds /\ runs[r].status = "running" /\ runs[r].phase = "write"
  /\ runs[r].in_flight > 0
  /\ resp \in Available(runs[r], "writer")
  /\ runs' = [runs EXCEPT ![r] = Returned(
       IF resp = "fail" THEN Failed(@, "writer")
       ELSE [AppendStep(@, "writer", "ok") EXCEPT !.phase = "critique"])]
  /\ lastTransition' = Transition("write", r, resp)
  /\ UNCHANGED <<startResult, script>>
  /\ UNCHANGED <<gatewayVars, streamVars, clientVars, authVars>>

(* variant: a revise verdict always goes back to Write *)
CritiqueOutcomeUnbounded(run, resp) ==
  IF resp = "approve"
  THEN [AppendStep(run, "critic", "approve") EXCEPT !.phase = "evaluate"]
  ELSE [AppendStep(run, "critic", "revise") EXCEPT
          !.phase = "write", !.total_revisions = @ + 1]

(* variant: a revise verdict goes back to Write without being counted *)
CritiqueOutcomeUncounted(run, resp) ==
  IF resp = "approve"
  THEN [AppendStep(run, "critic", "approve") EXCEPT !.phase = "evaluate"]
  ELSE [AppendStep(run, "critic", "revise") EXCEPT !.phase = "write"]

(* Critique: approve -> Evaluate; revise with total_revisions < 5 -> Write *)
(* with total_revisions incremented; revise at total_revisions = 5 ->      *)
(* the last draft is accepted (LoopCeilingReached) -> Evaluate             *)
CritiqueOutcome(run, resp) ==
  IF resp = "approve"
  THEN [AppendStep(run, "critic", "approve") EXCEPT !.phase = "evaluate"]
  ELSE IF run.total_revisions < MaxRevisions
  THEN [AppendStep(run, "critic", "revise") EXCEPT
          !.phase = "write", !.total_revisions = @ + 1]
  ELSE [AppendStep(run, "critic", "LoopCeilingReached") EXCEPT !.phase = "evaluate"]

Critique(r, resp) ==
  /\ r \in RunIds /\ runs[r].status = "running" /\ runs[r].phase = "critique"
  /\ runs[r].in_flight > 0
  /\ resp \in Available(runs[r], "critic")
  /\ runs' = [runs EXCEPT ![r] = Returned(
       IF resp = "fail" THEN Failed(@, "critic") ELSE CritiqueOutcome(@, resp))]
  /\ lastTransition' = Transition("critique", r, resp)
  /\ UNCHANGED <<startResult, script>>
  /\ UNCHANGED <<gatewayVars, streamVars, clientVars, authVars>>

(* Evaluate: the report is produced -> Done *)
Evaluate(r, resp) ==
  /\ r \in RunIds /\ runs[r].status = "running" /\ runs[r].phase = "evaluate"
  /\ runs[r].in_flight > 0
  /\ resp \in Available(runs[r], "evaluator")
  /\ runs' = [runs EXCEPT ![r] = Returned(
       IF resp = "fail" THEN Failed(@, "evaluator")
       ELSE Emit(Emit([AppendStep(@, "evaluator", "ok") EXCEPT
                         !.status = "completed", !.phase = "done"],
                      "evaluation_complete"),
                 "workflow_complete"))]
  /\ lastTransition' = Transition("evaluate", r, resp)
  /\ UNCHANGED <<startResult, script>>
  /\ UNCHANGED <<gatewayVars, streamVars, clientVars, authVars>>

(* the evaluator steps a run has beyond the one that completed it *)
ReEvaluations(run) == Invocations(run, "evaluator") - 1

(* variant: a failed re-evaluation is handled like a failed phase *)
ReEvalOutcomeFailing(run, resp) ==
  IF resp = "fail" THEN Failed(run, "evaluator")
  ELSE Emit(AppendStep(run, "evaluator", "ok"), "evaluation_complete")

(* the Evaluate phase invoked on a completed run: its outcome is appended  *)
(* as a new step; nothing else of the run changes                          *)
ReEvalOutcome(run, resp) ==
  IF resp = "fail" THEN AppendStep(run, "evaluator", "error")
  ELSE Emit(AppendStep(run, "evaluator", "ok"), "evaluation_complete")

(* a re-evaluation of a completed run is requested: the Evaluator is       *)
(* handed to the Agent Invoker                                             *)
InvokeReEvaluation(r) ==
  /\ r \in RunIds /\ runs[r].status = "completed"
  /\ ReEvaluations(runs[r]) < MaxReEval
  /\ CanInvoke(runs[r])
  /\ runs' = [runs EXCEPT ![r].in_flight = @ + 1]
  /\ lastTransition' = Transition("invokeReEvaluation", r, "none")
  /\ UNCHANGED <<startResult, script>>
  /\ UNCHANGED <<gatewayVars, streamVars, clientVars, authVars>>

(* Re-evaluation of an already-completed run *)
ReEvaluate(r, resp) ==
  /\ r \in RunIds /\ runs[r].status = "completed"
  /\ ReEvaluations(runs[r]) < MaxReEval
  /\ runs[r].in_flight > 0
  /\ resp \in Available(runs[r], "evaluator")
  /\ runs' = [runs EXCEPT ![r] = Returned(ReEvalOutcome(@, resp))]
  /\ lastTransition' = Transition("reevaluate", r, resp)
  /\ UNCHANGED <<startResult, script>>
  /\ UNCHANGED <<gatewayVars, streamVars, clientVars, authVars>>

(* an unexpected internal fault interrupts the task of a running run       *)
Fault(r) ==
  /\ r \in RunIds /\ runs[r].status = "running" /\ runs[r].phase # "faulted"
  /\ runs' = [runs EXCEPT ![r].phase = "faulted"]
  /\ lastTransition' = Transition("fault", r, "none")
  /\ UNCHANGED <<startResult, script>>
  /\ UNCHANGED <<gatewayVars, streamVars, clientVars, authVars>>

(* variant: the fault is not handled and the run is left as it is *)
FaultOutcomeStuck(run) == run

(* the run becomes Failed with the fault in error_message, and the         *)
(* terminal failure event is published                                     *)
FaultOutcome(run) ==
  Emit([run EXCEPT !.status = "failed", !.phase = "failed",
                   !.error_message = "InternalFault"],
       "workflow_error")

(* the task's fault handling; an invocation still outstanding is given up *)
FailOnFault(r) ==
  /\ r \in RunIds /\ runs[r].status = "running" /\ runs[r].phase = "faulted"
  /\ runs' = [runs EXCEPT ![r] = [FaultOutcome(@) EXCEPT !.in_flight = 0]]
  /\ lastTransition' = Transition("failOnFault", r, "none")
  /\ UNCHANGED <<startResult, script>>
  /\ UNCHANGED <<gatewayVars, streamVars, clientVars, authVars>>

(* the observers of a running run come and go and the delivery to them     *)
(* starts or stops failing                                                 *)
Listeners(r, mode) ==
  /\ r \in RunIds /\ runs[r].status = "running"
  /\ runs[r].listeners # mode
  /\ runs' = [runs EXCEPT ![r].listeners = mode]
  /\ lastTransition' = Transition("listeners", r, mode)
  /\ UNCHANGED <<startResult, script>>
  /\ UNCHANGED <<gatewayVars, streamVars, clientVars, authVars>>

(* one step of the state machine of run r *)
Advance(r) ==
  \/ Invoke(r)
  \/ \E resp \in Responses("supervisor") : Supervise(r, resp)
  \/ \E resp \in Responses("researcher") : Research(r, resp)
  \/ \E resp \in Responses("writer") : Write(r, resp)
  \/ \E resp \in Responses("critic") : Critique(r, resp)
  \/ \E resp \in Responses("evaluator") : Evaluate(r, resp)

(* one step of the task that orchestrates run r *)
Orchestrate(r) ==
  \/ Advance(r)
  \/ Fault(r)
  \/ FailOnFault(r)

NextOrch ==
  \/ \E p \in Projects : startRun(p, MaxRuns)
  \/ \E r \in 1..MaxRuns : Orchestrate(r)
  \/ \E r \in 1..MaxRuns : InvokeReEvaluation(r)
  \/ \E r \in 1..MaxRuns, resp \in Responses("evaluator") : ReEvaluate(r, resp)

(* ======================================================================= *)
(* WebSocketService of the client (src/frontend/src/types/index.ts)        *)
(* ======================================================================= *)

MaxSockets  == 2   \* WebSocket objects the service creates
NClientRuns == 1   \* runs the client subscribes to

maxReconnects == 10
MaxDelay == 30000  \* ms

ClientRuns == 1..NClientRuns

RECURSIVE Pow2(_)
(* Math.pow(2, n) *)
Pow2(n) == IF n = 0 THEN 1 ELSE 2 * Pow2(n - 1)

(* Math.min(a, b) *)
Min(a, b) == IF a < b THEN a ELSE b

(* the delay of the timer set when reconnectAttempts has become n *)
Delay(n) == Min(1000 * Pow2(n), MaxDelay)

(* new WebSocket(url): by records whether connect() was called by a user   *)
(* of the service or by the reconnect timer; subs is the Set the gateway   *)
(* keeps for the connection                                                *)
NewSocket(by) == [readyState |-> "CONNECTING", by |-> by, subs |-> {}]

InitService ==
  /\ client = [ws |-> 0, sockets |-> <<>>, reconnectAttempts |-> 0,
               reconnectTimeout |-> "null", timers |-> 0, lastDelay |-> 0,
               scheduled |-> 0]
  /\ askedOn = [r \in ClientRuns |-> 0]
  /\ wanted = {}
  /\ disconnected = FALSE
  /\ wsOp = [op |-> "new", socket |-> 0, run |-> 0]

InitClient == InitService /\ urlValid = TRUE

(* this.ws?.readyState === WebSocket.OPEN *)
WsIsOpen(cl) == cl.ws # 0 /\ cl.sockets[cl.ws].readyState = "OPEN"

(* variant: reconnects are scheduled without a limit *)
CanReconnectAlways(n) == TRUE

(* tryReconnect goes on unless reconnectAttempts >= maxReconnects *)
CanReconnect(n) == n < maxReconnects

(* tryReconnect(): the new timer replaces the handle in reconnectTimeout;  *)
(* a timer set before and still pending stays pending                      *)
tryReconnect(cl) ==
  IF ~CanReconnect(cl.reconnectAttempts) THEN cl
  ELSE [cl EXCEPT !.reconnectAttempts = @ + 1,
                  !.lastDelay = Delay(cl.reconnectAttempts + 1),
                  !.reconnectTimeout = "pending",
                  !.timers = @ + 1,
                  !.scheduled = @ + 1]

(* connect() *)
connect(cl, by) ==
  IF WsIsOpen(cl) THEN cl
  ELSE IF urlValid
  THEN [cl EXCEPT !.sockets = Append(@, NewSocket(by)),
                  !.ws = Len(cl.sockets) + 1]
  ELSE tryReconnect(cl)

(* subscribe(runId): the frame is sent on an OPEN socket only, and the     *)
(* gateway adds the channel to the Set of the connection                   *)
subscribe(cl, r) ==
  IF WsIsOpen(cl)
  THEN [cl EXCEPT !.sockets[cl.ws].subs = @ \cup {r}]
  ELSE cl

(* unsubscribe(runId) *)
unsubscribe(cl, r) ==
  IF WsIsOpen(cl)
  THEN [cl EXCEPT !.sockets[cl.ws].subs = @ \ {r}]
  ELSE cl

(* disconnect(): the newest timer is cleared, the socket in this.ws is     *)
(* closed and this.ws becomes null; the handlers of the socket stay        *)
disconnect(cl) ==
  LET cleared == IF cl.reconnectTimeout = "pending"
                 THEN [cl EXCEPT !.reconnectTimeout = "done", !.timers = @ - 1]
                 ELSE cl
      closing == IF cl.ws # 0
                    /\ cl.sockets[cl.ws].readyState \in {"CONNECTING", "OPEN"}
                 THEN [cleared EXCEPT !.sockets[cl.ws].readyState = "CLOSING"]
                 ELSE cleared
  IN [closing EXCEPT !.ws = 0]

WsOp(o, s, r) == [op |-> o, socket |-> s, run |-> r]

(* the call creates no WebSocket object beyond the ones the model holds *)
WithinSockets(cl) == Len(cl.sockets) <= MaxSockets

(* a user of the service calls connect() *)
WsConnect ==
  /\ client' = connect(client, "connect")
  /\ WithinSockets(client')
  /\ disconnected' = FALSE
  /\ wsOp' = WsOp("connect", client'.ws, 0)
  /\ UNCHANGED <<urlValid, askedOn, wanted>>
  /\ UNCHANGED <<gatewayVars, orchVars, streamVars, authVars>>

(* a user of the service calls disconnect() *)
WsDisconnect ==
  /\ client' = disconnect(client)
  /\ disconnected' = TRUE
  /\ wsOp' = WsOp("disconnect", client.ws, 0)
  /\ UNCHANGED <<urlValid, askedOn, wanted>>
  /\ UNCHANGED <<gatewayVars, orchVars, streamVars, authVars>>

(* useAgentStream.subscribe(runId): wsService.connect() and                *)
(* wsService.subscribe(runId) one after the other                          *)
ConnectAndSubscribe(r) ==
  /\ client' = subscribe(connect(client, "connect"), r)
  /\ WithinSockets(client')
  /\ askedOn' = [askedOn EXCEPT ![r] = client'.ws]
  /\ wanted' = IF WsIsOpen(client') THEN wanted \cup {r} ELSE wanted
  /\ disconnected' = FALSE
  /\ wsOp' = WsOp("connectAndSubscribe", client'.ws, r)
  /\ UNCHANGED urlValid
  /\ UNCHANGED <<gatewayVars, orchVars, streamVars, authVars>>

(* the cleanup of useAgentStream calls wsService.unsubscribe(runId) *)
WsUnsubscribe(r) ==
  /\ askedOn[r] # 0
  /\ client' = unsubscribe(client, r)
  /\ askedOn' = [askedOn EXCEPT ![r] = 0]
  /\ wanted' = wanted \ {r}
  /\ wsOp' = WsOp("unsubscribe", client.ws, r)
  /\ UNCHANGED <<urlValid, disconnected>>
  /\ UNCHANGED <<gatewayVars, orchVars, streamVars, authVars>>

(* ws.onopen of socket s *)
SocketOpens(s) ==
  /\ s \in DOMAIN client.sockets
  /\ client.sockets[s].readyState = "CONNECTING"
  /\ client' = [client EXCEPT !.sockets[s].readyState = "OPEN",
                              !.reconnectAttempts = 0,
                              !.scheduled = 0]
  /\ wsOp' = WsOp("open", s, 0)
  /\ UNCHANGED <<urlValid, askedOn, wanted, disconnected>>
  /\ UNCHANGED <<gatewayVars, orchVars, streamVars, authVars>>

(* ws.onclose of socket s: the connection failed, was dropped, or its      *)
(* close() has completed; the gateway deletes the Set of the connection    *)
SocketCloses(s) ==
  /\ s \in DOMAIN client.sockets
  /\ client.sockets[s].readyState # "CLOSED"
  /\ client' = tryReconnect([client EXCEPT !.sockets[s].readyState = "CLOSED",
                                           !.sockets[s].subs = {}])
  /\ wsOp' = WsOp("close", s, 0)
  /\ UNCHANGED <<urlValid, askedOn, wanted, disconnected>>
  /\ UNCHANGED <<gatewayVars, orchVars, streamVars, authVars>>

(* a reconnect timer fires and calls connect(); newest says whether it is  *)
(* the timer whose handle reconnectTimeout holds                           *)
TimerFires(newest) ==
  /\ IF newest THEN client.reconnectTimeout = "pending"
     ELSE client.timers > (IF client.reconnectTimeout = "pending" THEN 1 ELSE 0)
  /\ client' =
       connect([client EXCEPT !.timers = @ - 1,
                              !.reconnectTimeout = IF newest THEN "done" ELSE @],
               "timer")
  /\ WithinSockets(client')
  /\ wsOp' = WsOp("timer", client'.ws, 0)
  /\ UNCHANGED <<urlValid, askedOn, wanted, disconnected>>
  /\ UNCHANGED <<gatewayVars, orchVars, streamVars, authVars>>

(* ws.onmessage of socket s with an agent_event of run r, which the        *)
(* gateway sends to the connections whose Set holds the channel: the event *)
(* is emitted to the handlers of run:r                                     *)
SocketMessage(s, r) ==
  /\ s \in DOMAIN client.sockets
  /\ client.sockets[s].readyState = "OPEN"
  /\ r \in client.sockets[s].subs
  /\ wsOp' = WsOp("message", s, r)
  /\ UNCHANGED <<client, urlValid, askedOn, wanted, disconnected>>
  /\ UNCHANGED <<gatewayVars, orchVars, streamVars, authVars>>

NextClient ==
  \/ WsConnect
  \/ WsDisconnect
  \/ \E r \in ClientRuns : ConnectAndSubscribe(r)
  \/ \E r \in ClientRuns : WsUnsubscribe(r)
  \/ \E s \in 1..MaxSockets : SocketOpens(s)
  \/ \E s \in 1..MaxSockets : SocketCloses(s)
  \/ \E newest \in BOOLEAN : TimerFires(newest)
  \/ \E s \in 1..MaxSockets, r \in ClientRuns : SocketMessage(s, r)

(* ======================================================================= *)
(* authStore and the axios interceptors (src/frontend/src/store/           *)
(* authStore.ts, src/frontend/src/services/api.ts)                         *)
(* ======================================================================= *)

NCalls == 1        \* requests in flight at a time

Calls == 1..NCalls

(* the store methods that make requests, and a request of any other page *)
Ops == {"login", "register", "loadUser", "fetch"}

(* requests to endpoints that need the Authorization header: /auth/me/ and *)
(* the requests of the pages; "me" is the authAPI.me() inside login()      *)
Protected == {"me", "loadUser", "fetch"}

Statuses == {200, 401, 500}

NoTokens == [access_token |-> FALSE, refresh_token |-> FALSE]
Tokens   == [access_token |-> TRUE, refresh_token |-> TRUE]

SignedOut == [user |-> "null", isAuthenticated |-> FALSE, loading |-> FALSE]

Idle ==
  [op |-> "none", stage |-> "idle", retry |-> FALSE, bearer |-> FALSE,
   refreshes |-> 0, replays |-> 0]

(* a request as api sends it: the request interceptor attaches the token   *)
(* localStorage holds, and the config has no _retry                        *)
Request(op, token) == [Idle EXCEPT !.op = op, !.stage = "sent", !.bearer = token]

LastAuth(o, k, st, status, result, error, c) ==
  [op |-> o, call |-> k, stage |-> st, status |-> status, result |-> result,
   error |-> error, refreshes |-> c.refreshes, replays |-> c.replays]

(* create(...): isAuthenticated: !!localStorage.getItem('access_token') *)
NewStore(sto) == [SignedOut EXCEPT !.isAuthenticated = sto.access_token]

InitAuth ==
  /\ storage = NoTokens
  /\ auth = NewStore(NoTokens)
  /\ calls = [k \in Calls |-> Idle]
  /\ navigating = FALSE
  /\ signedOut = FALSE
  /\ lastAuth = LastAuth("create", 0, "idle", 0, "none", "none", Idle)

(* the store and storage after the call that op awaits has resolved *)
OnSuccess(op, st) ==
  CASE op = "login"    -> [st EXCEPT !.storage = Tokens]
    [] op = "me"       -> [st EXCEPT !.auth.user = "user",
                                     !.auth.isAuthenticated = TRUE]
    [] op = "register" -> [st EXCEPT !.storage = Tokens,
                                     !.auth.user = "user",
                                     !.auth.isAuthenticated = TRUE]
    [] op = "loadUser" -> [st EXCEPT !.auth = [user |-> "user",
                                               isAuthenticated |-> TRUE,
                                               loading |-> FALSE]]
    [] OTHER           -> st

(* the store and storage after the call that op awaits has been rejected:  *)
(* only loadUser catches                                                   *)
OnFailure(op, st) ==
  IF op = "loadUser" THEN [st EXCEPT !.storage = NoTokens, !.auth = SignedOut]
  ELSE st

(* variant: every 401 is answered with a refresh *)
ShouldRefreshAlways(status, retry) == status = 401

(* error.response?.status === 401 && !originalRequest._retry *)
ShouldRefresh(status, retry) == status = 401 /\ ~retry

(* the slots below k are in use: idle slots are interchangeable *)
LowestIdle(k) == calls[k] = Idle /\ \A j \in Calls : j < k => calls[j] # Idle

(* login, register, loadUser or a page's request sends its first request *)
Start(k, op) ==
  /\ LowestIdle(k)
  /\ calls' = [calls EXCEPT ![k] = Request(op, storage.access_token)]
  /\ auth' = IF op = "loadUser" THEN [auth EXCEPT !.loading = TRUE] ELSE auth
  /\ lastAuth' = LastAuth(op, k, "sent", 0, "pending", "none", Idle)
  /\ UNCHANGED <<storage, navigating, signedOut>>
  /\ UNCHANGED <<gatewayVars, orchVars, streamVars, clientVars>>

(* the response to a request or to its replay arrives: the response        *)
(* interceptor runs and then the code that awaits the call                 *)
Respond(k, status) ==
  LET c  == calls[k]
      st == [storage |-> storage, auth |-> auth]
  IN
  /\ c.stage \in {"sent", "replayed"}
  /\ status = 200 => (c.op \in Protected => c.bearer)
  /\ IF status = 200
     THEN LET new == OnSuccess(c.op, st) IN
          /\ storage' = new.storage
          /\ auth' = new.auth
          /\ calls' = [calls EXCEPT ![k] =
               IF c.op = "login" THEN Request("me", new.storage.access_token)
               ELSE Idle]
          /\ signedOut' = IF c.op \in {"login", "register"} THEN FALSE
                          ELSE signedOut
          /\ lastAuth' = LastAuth(c.op, k, c.stage, status, "resolved", "none", c)
     ELSE IF ShouldRefresh(status, c.retry) /\ storage.refresh_token
     THEN /\ calls' = [calls EXCEPT ![k] = [c EXCEPT !.retry = TRUE,
                                                     !.stage = "refreshing",
                                                     !.refreshes = @ + 1]]
          /\ lastAuth' = LastAuth(c.op, k, c.stage, status, "pending", "none",
                                  calls'[k])
          /\ UNCHANGED <<storage, auth, signedOut>>
     ELSE LET new == OnFailure(c.op, st) IN
          /\ storage' = new.storage
          /\ auth' = new.auth
          /\ calls' = [calls EXCEPT ![k] = Idle]
          /\ signedOut' = (signedOut \/ c.op = "loadUser")
          /\ lastAuth' = LastAuth(c.op, k, c.stage, status, "rejected",
                                  IF c.stage = "replayed" THEN "replay"
                                  ELSE "original", c)
  /\ UNCHANGED navigating
  /\ UNCHANGED <<gatewayVars, orchVars, streamVars, clientVars>>

(* the response to axios.post('/api/auth/refresh/') arrives *)
RefreshResponds(k, ok) ==
  LET c == calls[k] IN
  /\ c.stage = "refreshing"
  /\ IF ok
     THEN /\ storage' = [storage EXCEPT !.access_token = TRUE]
          /\ calls' = [calls EXCEPT ![k] = [c EXCEPT !.stage = "replayed",
                                                     !.bearer = TRUE,
                                                     !.replays = @ + 1]]
          /\ lastAuth' = LastAuth(c.op, k, "refreshing", 200, "pending", "none",
                                  calls'[k])
          /\ UNCHANGED <<auth, navigating, signedOut>>
     ELSE LET new == OnFailure(c.op, [storage |-> NoTokens, auth |-> auth]) IN
          /\ storage' = new.storage
          /\ auth' = new.auth
          /\ navigating' = TRUE
          /\ calls' = [calls EXCEPT ![k] = Idle]
          /\ signedOut' = (signedOut \/ c.op = "loadUser")
          /\ lastAuth' = LastAuth(c.op, k, "refreshing", 401, "rejected",
                                  "original", c)
  /\ UNCHANGED <<gatewayVars, orchVars, streamVars, clientVars>>

(* logout() *)
logout ==
  /\ storage' = NoTokens
  /\ auth' = [auth EXCEPT !.user = "null", !.isAuthenticated = FALSE]
  /\ signedOut' = TRUE
  /\ lastAuth' = LastAuth("logout", 0, "idle", 0, "none", "none", Idle)
  /\ UNCHANGED <<calls, navigating>>
  /\ UNCHANGED <<gatewayVars, orchVars, streamVars, clientVars>>

(* the navigation to /login completes: the page is loaded again, the       *)
(* requests in flight are dropped and the store is created from storage    *)
Reload ==
  /\ navigating
  /\ navigating' = FALSE
  /\ calls' = [k \in Calls |-> Idle]
  /\ auth' = NewStore(storage)
  /\ lastAuth' = LastAuth("create", 0, "idle", 0, "none", "none", Idle)
  /\ UNCHANGED <<storage, signedOut>>
  /\ UNCHANGED <<gatewayVars, orchVars, streamVars, clientVars>>

NextAuth ==
  \/ \E k \in Calls, op \in Ops : Start(k, op)
  \/ \E k \in Calls, status \in Statuses : Respond(k, status)
  \/ \E k \in Calls, ok \in BOOLEAN : RefreshResponds(k, ok)
  \/ logout
  \/ Reload

Init == InitGateway /\ InitOrch /\ InitStream /\ InitClient /\ InitAuth

(* the page is loaded with whatever an earlier session left in storage *)
InitAnyStorage ==
  /\ InitGateway /\ InitOrch /\ InitStream /\ InitClient
  /\ storage \in [access_token : BOOLEAN, refresh_token : BOOLEAN]
  /\ auth = NewStore(storage)
  /\ calls = [k \in Calls |-> Idle]
  /\ navigating = FALSE
  /\ signedOut = FALSE
  /\ lastAuth = LastAuth("create", 0, "idle", 0, "none", "none", Idle)

SpecAuth == InitAnyStorage /\ [][NextAuth]_vars

(* the service with a URL new WebSocket accepts or one it rejects *)
InitAnyUrl ==
  /\ InitGateway /\ InitOrch /\ InitStream /\ InitAuth
  /\ InitService /\ urlValid \in BOOLEAN

SpecClient == InitAnyUrl /\ [][NextClient]_vars

Spec == Init /\ [][Next]_vars

SpecStream == Init /\ [][NextStream]_vars

SpecOrch == Init /\ [][NextOrch]_vars

(* the task of a run keeps being scheduled until the run is terminal *)
SpecOrchFair ==
  Init /\ [][NextOrch]_vars /\ \A r \in 1..MaxRuns : WF_vars(Orchestrate(r))

(* the Agent Invoker seeded with one response per role and a sequence of   *)
(* Critic verdicts                                                         *)
Scripts ==
  {[supervisor |-> <<"research">>, researcher |-> <<a>>, writer |-> <<b>>,
    critic |-> c, evaluator |-> <<d>>] :
     a \in {"ok", "fail"}, b \in {"ok", "fail"}, d \in {"ok", "fail"},
     c \in UNION {[1..n -> {"approve", "revise", "fail"}] : n \in 1..MaxScript}}

InitSeeded ==
  /\ InitGateway /\ InitStream /\ InitClient /\ InitAuth
  /\ runs = <<>>
  /\ startResult = [project |-> 0, result |-> "none"]
  /\ lastTransition = Transition("init", 0, "none")
  /\ script \in Scripts

SpecSeeded == InitSeeded /\ [][NextOrch]_vars

(* the seeded responses of the round trip: research, write, critique        *)
(* "revise" once, critique "approve", evaluate                              *)
SeededRoundTrip ==
  [supervisor |-> <<"research">>, researcher |-> <<"ok">>, writer |-> <<"ok">>,
   critic |-> <<"revise", "approve">>, evaluator |-> <<"ok">>]

(* the ledger of several projects, the Agent Invoker giving the round-trip *)
(* responses to every run                                                  *)
InitStart ==
  /\ InitGateway /\ InitStream /\ InitClient /\ InitAuth
  /\ runs = <<>>
  /\ startResult = [project |-> 0, result |-> "none"]
  /\ lastTransition = Transition("init", 0, "none")
  /\ script = SeededRoundTrip

NextStart ==
  \/ \E p \in Projects : startRun(p, MaxStarts)
  \/ \E r \in 1..MaxStarts : Orchestrate(r)

SpecStart == InitStart /\ [][NextStart]_vars

(* runs of several projects under the round-trip responses while their     *)
(* observers come and go                                                   *)
NextEmit ==
  \/ \E p \in Projects : startRun(p, MaxEmitRuns)
  \/ \E r \in 1..MaxEmitRuns : Advance(r)
  \/ \E r \in 1..MaxEmitRuns, mode \in DeliveryModes : Listeners(r, mode)

SpecEmit == InitStart /\ [][NextEmit]_vars

(* ======================================================================= *)
(* Properties                                                              *)
(* ======================================================================= *)

Live(c) == readyState[c] # "CLOSED"

(* the Set a connection's handlers find under their clientId *)
Entry(c) ==
  IF MapHas(clientSubscriptions, clientId[c])
  THEN clientSubscriptions[clientId[c]] ELSE {}

(* the Map keys whose Set holds the channel *)
Interest(ch) ==
  {id \in DOMAIN clientSubscriptions : ch \in clientSubscriptions[id]}

Receiving(c) == IsOpen(c) /\ linkUp[c]

Ordered(frames) ==
  \A i, j \in 1..Len(frames) : i < j => frames[i].data.seq <= frames[j].data.seq

InQueue(r) == \E i \in 1..Len(redisQueue) : redisQueue[i].message.run_id = r

(* C1: when one publication is dispatched, every open connection whose own  *)
(* registry entry holds the channel is sent exactly one copy of it.         *)
C1_ExactlyOneCopy ==
  lastOp.op = "dispatch" =>
    \A c \in Conns :
      (IsOpen(c) /\ Channel(lastOp.run) \in Entry(c)) => Len(out[c]) = 1

(* C2: when a publication on channel C is dispatched, a connection whose    *)
(* own registry entry does not hold C is sent nothing.                      *)
C2_OnlyToSubscribers ==
  lastOp.op = "dispatch" =>
    \A c \in Conns :
      (Live(c) /\ Channel(lastOp.run) \notin Entry(c)) => out[c] = <<>>

(* C3: an unsubscribe that removes the last interest in a channel leaves    *)
(* the channel not subscribed upstream.                                     *)
C3_ReleasedAfterLastUnsubscribe ==
  [][\A r \in Runs :
       (/\ lastOp'.op = "unsubscribe"
        /\ lastOp'.run = r
        /\ Interest(Channel(r)) # {}
        /\ Interest(Channel(r))' = {})
       => Channel(r) \notin upstream']_vars

(* C4: no step issues an upstream subscribe call for a channel that already *)
(* has an interested connection.                                            *)
C4_NoUpstreamResubscribe ==
  [][\A ch \in Channels : Interest(ch) # {} => ch \notin upCalls']_vars

(* C5: when a connection closes, its registry entry is removed and every    *)
(* channel of that entry that is left without interest is released          *)
(* upstream.                                                                *)
C5_DropConnectionReleases ==
  [][\A c \in Conns :
       (Live(c) /\ ~Live(c)')
       => /\ ~MapHas(clientSubscriptions', clientId[c])
          /\ \A ch \in Entry(c) : Interest(ch)' = {} => ch \notin upstream']_vars

(* C6: the frames of one channel reach one connection in the order in which *)
(* the bridge received the publications: never a later one before an        *)
(* earlier one.                                                             *)
C6_FifoPerChannel ==
  \A c \in Conns, ch \in Channels : Ordered(delivered[c][ch])

(* C6 witness: a connection has received both events of a run, after the    *)
(* second was dispatched.                                                   *)
C6_Witness ==
  /\ lastOp.op = "dispatch"
  /\ \E c \in Conns, ch \in Channels :
       \E i, j \in 1..Len(delivered[c][ch]) :
         delivered[c][ch][i].data.seq < delivered[c][ch][j].data.seq

C8_ExclusiveEntry ==
  \A c \in Conns :
    Live(c) =>
      /\ MapHas(clientSubscriptions, clientId[c])
      /\ \A d \in Conns : (d # c /\ Live(d)) => clientId[d] # clientId[c]

(* C9: every subscribe request with a run_id is answered with a subscribed  *)
(* acknowledgement for that run.                                            *)
C9_SubscribeAcknowledged ==
  lastOp.op = "subscribe" =>
    \E c \in Conns :
      /\ IsOpen(c)
      /\ out[c] = <<[type |-> "subscribed", channel |-> Channel(lastOp.run),
                     run_id |-> lastOp.run]>>

(* C10: once a run has terminated and none of its publications is still in  *)
(* transit, every open connection subscribed to the run has received the    *)
(* run's terminal event.                                                    *)
C10_TerminalEventReceived ==
  \A c \in Conns, r \in Runs :
    (/\ Receiving(c)
     /\ Channel(r) \in Entry(c)
     /\ runState[r] \in {"completed", "failed"}
     /\ ~InQueue(r))
    => \E i \in 1..Len(delivered[c][Channel(r)]) :
         delivered[c][Channel(r)][i].data.type \in TerminalTypes

(* the event types of the wire shape *)
WireTypes == StepTypes \cup TerminalTypes

(* the frames connection c has received, over all channels *)
Received(c) ==
  UNION {{delivered[c][ch][i] : i \in 1..Len(delivered[c][ch])} : ch \in Channels}

(* C12 as stated: every event a subscriber receives has one of the four     *)
(* event types as its top-level type and carries run_id and project_id at   *)
(* top level, with the fields the publisher gave them.                      *)
C12_WireShape ==
  \A c \in Conns : \A f \in Received(c) :
    /\ f.type \in WireTypes
    /\ {"run_id", "project_id"} \subseteq DOMAIN f
    /\ f = Event(f.run_id, f.seq, f.type)

(* C12 amended: every event a subscriber receives is an envelope of type    *)
(* agent_event naming the run's channel, whose data field is the published  *)
(* event: one of the four event types, with run_id and project_id, as the   *)
(* publisher of that run produced it.                                       *)
C12_EnvelopeShape ==
  \A c \in Conns : \A f \in Received(c) :
    /\ DOMAIN f = {"type", "channel", "data"}
    /\ f.type = "agent_event"
    /\ {"type", "run_id", "project_id"} \subseteq DOMAIN f.data
    /\ f.data.type \in WireTypes
    /\ f.data.run_id \in Runs
    /\ f.channel = Channel(f.data.run_id)
    /\ f.data = Event(f.data.run_id, f.data.seq, f.data.type)
    /\ f.data.seq \in 1..pubSeq[f.data.run_id]
    /\ f.data.type = "workflow_complete" => runState[f.data.run_id] = "completed"
    /\ f.data.type = "workflow_error" => runState[f.data.run_id] = "failed"

(* C12 witness: a connection has received an evaluation_complete event.     *)
C12_Witness ==
  \E c \in Conns : \E f \in Received(c) : f.data.type = "evaluation_complete"

(* The publication just dispatched was the workflow_error of run r: the    *)
(* run has failed, so its terminal event was its last publication, and     *)
(* nothing of the run is left in transit behind the dispatched one.        *)
ErrorDispatched(r) ==
  /\ lastOp = Op("dispatch", r)
  /\ runState[r] = "failed"
  /\ ~InQueue(r)

(* C16: when the workflow_error event of a failed run is dispatched, every  *)
(* connection that is open with its peer present and holds a subscription   *)
(* to the run (acknowledged, not unsubscribed) receives it.                 *)
C16_ErrorReachesSubscribers ==
  \A r \in Runs :
    ErrorDispatched(r) =>
      \A c \in Conns :
        (Receiving(c) /\ r \in subscribed[c])
        => \E f \in Received(c) : f.data.type = "workflow_error"

(* ----------------------------------------------------------------------- *)
(* useAgentStream and ProjectDetailPage                                    *)
(* ----------------------------------------------------------------------- *)

(* the handler of the hook has just been called with a terminal event *)
TerminalHandled ==
  /\ lastEvent'.run # 0
  /\ lastEvent'.data.type \in TerminalTypes

(* C11: whenever a terminal event (workflow_complete or workflow_error) of *)
(* the subscribed run reaches the client, the stream leaves the running    *)
(* state (isRunning false, currentAgent null) and a reload of the project  *)
(* is scheduled, whatever final_post or error the event carries.           *)
C11_TerminalEventReloads ==
  [][TerminalHandled =>
       /\ ~stream'.isRunning
       /\ stream'.currentAgent = Null
       /\ reloadTimer' = reloadTimer + 1]_vars

(* ----------------------------------------------------------------------- *)
(* Workflow orchestrator and Run Ledger                                    *)
(* ----------------------------------------------------------------------- *)

(* the runs of project p in the ledger rs whose status is running *)
RunningOf(rs, p) ==
  {r \in DOMAIN rs : rs[r].project = p /\ rs[r].status = "running"}

IsPrefix(a, b) ==
  /\ Len(a) <= Len(b)
  /\ \A i \in 1..Len(a) : a[i] = b[i]

(* C13: at every instant at most one run per project is running; a startRun *)
(* for a project with a running run fails with ConflictError and creates    *)
(* nothing; a startRun for a project without one creates its run, whatever  *)
(* the runs of other projects are doing.                                    *)
C13_OneRunningPerProject ==
  [][/\ \A p \in Projects : Cardinality(RunningOf(runs', p)) <= 1
     /\ lastTransition'.op = "startRun" =>
          LET p == startResult'.project IN
          IF RunningOf(runs, p) # {}
          THEN /\ startResult'.result = "ConflictError"
               /\ runs' = runs
          ELSE /\ startResult'.result = "created"
               /\ runs' = Append(runs, NewRun(p))]_vars

(* C13 witness: a second startRun for a project has just failed with        *)
(* ConflictError while runs of two different projects are running.          *)
C13_Witness ==
  /\ lastTransition.op = "startRun"
  /\ startResult.result = "ConflictError"
  /\ \E p, q \in Projects :
       p # q /\ RunningOf(runs, p) # {} /\ RunningOf(runs, q) # {}

(* the most AgentSteps a run can record before it is terminal: one          *)
(* supervisor and one researcher step, a writer and a critic step for the   *)
(* first draft and for each revision, one evaluator step                    *)
StepCeiling == 2 * (MaxRevisions + 1) + 3

(* C14: total_revisions never exceeds 5; a verdict of revise with           *)
(* total_revisions < 5 returns the run to Write and counts the revision; a  *)
(* verdict of revise at total_revisions = 5 accepts the last draft and      *)
(* moves on to Evaluate; a run that is still running has recorded fewer     *)
(* than StepCeiling steps, so it is terminal after finitely many.           *)
C14_BoundedRevisions ==
  [][\A r \in DOMAIN runs' :
       /\ runs'[r].total_revisions <= MaxRevisions
       /\ runs'[r].status = "running" => Len(runs'[r].steps) < StepCeiling
       /\ (r \in RunIds /\ lastTransition' = Transition("critique", r, "revise")) =>
            IF runs[r].total_revisions < MaxRevisions
            THEN /\ runs'[r].phase = "write"
                 /\ runs'[r].status = "running"
                 /\ runs'[r].total_revisions = runs[r].total_revisions + 1
            ELSE /\ runs'[r].phase = "evaluate"
                 /\ runs'[r].status = "running"
                 /\ runs'[r].total_revisions = MaxRevisions]_vars

(* C14 witness: a run whose Critic answered revise every time has completed *)
(* with total_revisions = 5.                                                *)
C14_Witness ==
  \E r \in RunIds :
    /\ runs[r].status = "completed"
    /\ runs[r].total_revisions = MaxRevisions
    /\ \A i \in DOMAIN runs[r].steps :
         runs[r].steps[i].agent_name = "critic"
           => runs[r].steps[i].decision \in {"revise", "LoopCeilingReached"}

(* C15: the step_number values of every run are exactly 1..N in append      *)
(* order, and no step changes the steps a run already has: they stay a      *)
(* prefix of its steps.                                                     *)
C15_StepNumbersAppendOnly ==
  [][/\ \A r \in DOMAIN runs' :
          \A i \in DOMAIN runs'[r].steps : runs'[r].steps[i].step_number = i
     /\ \A r \in RunIds :
          /\ r \in DOMAIN runs'
          /\ IsPrefix(runs[r].steps, runs'[r].steps)]_vars

(* C15 witness: a run has recorded the writer step of a revision as its     *)
(* fifth step.                                                              *)
C15_Witness ==
  \E r \in RunIds :
    /\ lastTransition = Transition("write", r, "ok")
    /\ Len(runs[r].steps) = 5
    /\ runs[r].steps[5].step_number = 5

Terminal(r) == r \in RunIds /\ runs[r].status \in {"completed", "failed"}

Outcome(run) ==
  [status |-> run.status, total_revisions |-> run.total_revisions,
   error_message |-> run.error_message]

C19_ReEvaluationAppendsOnly ==
  [][\A r \in RunIds :
       (lastTransition'.op = "reevaluate" /\ lastTransition'.run = r)
       => /\ IsPrefix(runs[r].steps, runs'[r].steps)
          /\ Len(runs'[r].steps) > Len(runs[r].steps)
          /\ \A i \in DOMAIN runs'[r].steps : runs'[r].steps[i].step_number = i
          /\ Outcome(runs'[r]) = Outcome(runs[r])]_vars

(* C19 witness: a completed run carries the step of a re-evaluation after   *)
(* the evaluator step that completed it.                                    *)
C19_Witness ==
  \E r \in RunIds :
    /\ lastTransition = Transition("reevaluate", r, "ok")
    /\ ReEvaluations(runs[r]) = 1
    /\ runs[r].steps[Len(runs[r].steps) - 1].agent_name = "evaluator"
    /\ runs[r].steps[Len(runs[r].steps)].step_number = Len(runs[r].steps)

(* the agents of a run's steps, in step order *)
AgentsOf(run) == [i \in DOMAIN run.steps |-> run.steps[i].agent_name]

(* the run has finished and has not been re-evaluated *)
Finished(r) == runs[r].phase = "done" /\ ReEvaluations(runs[r]) = 0

C21_OneInvocationInFlight ==
  [][\A r \in RunIds :
       /\ runs[r].in_flight <= 1 /\ runs'[r].in_flight <= 1
       /\ runs'[r].in_flight > runs[r].in_flight
            => /\ runs[r].in_flight = 0
               /\ runs'[r].steps = runs[r].steps
       /\ runs'[r].steps # runs[r].steps
            => /\ runs[r].in_flight = 1 /\ runs'[r].in_flight = 0
               /\ Len(runs'[r].steps) = Len(runs[r].steps) + 1
               /\ IsPrefix(runs[r].steps, runs'[r].steps)]_vars

(* C21 witness: two runs of different projects each have one invocation     *)
(* outstanding, one of them after its first steps were appended.            *)
C21_Witness ==
  \E r, q \in RunIds :
    /\ runs[r].project # runs[q].project
    /\ runs[r].in_flight = 1 /\ runs[q].in_flight = 1
    /\ Len(runs[r].steps) >= 2
    /\ runs[r].status = "running" /\ runs[q].status = "running"

(* the steps of the round trip: one revision between research and evaluate *)
RoundTripAgents ==
  <<"supervisor", "researcher", "writer", "critic", "writer", "critic",
    "evaluator">>

(* C22: publishing never changes the outcome of a run: whoever listens and *)
(* whatever becomes of the delivery, two runs with the same steps are in   *)
(* the same status and phase with the same revisions and error and have    *)
(* published the same events, every run takes the steps of the round trip  *)
(* in their order, and a run that has left running is completed with all   *)
(* of them.                                                                *)
C22_PublishingLeavesOutcome ==
  /\ \A r, q \in RunIds :
       runs[r].steps = runs[q].steps
       => /\ Outcome(runs[r]) = Outcome(runs[q])
          /\ runs[r].phase = runs[q].phase
          /\ runs[r].events = runs[q].events
  /\ \A r \in RunIds :
       /\ IsPrefix(AgentsOf(runs[r]), RoundTripAgents)
       /\ runs[r].status \in {"running", "completed"}
       /\ runs[r].status = "completed" <=> AgentsOf(runs[r]) = RoundTripAgents
       /\ runs[r].phase \in AgentPhases \cup {"done"}
       /\ Len(runs[r].events) >= Len(runs[r].steps)

(* C22 witness: one run has completed the round trip with nobody listening *)
(* and another with the delivery failing.                                  *)
C22_Witness ==
  \E r, q \in RunIds :
    /\ runs[r].status = "completed" /\ runs[r].listeners = "nobody"
    /\ runs[q].status = "completed" /\ runs[q].listeners = "failing"
    /\ AgentsOf(runs[r]) = RoundTripAgents
    /\ AgentsOf(runs[q]) = RoundTripAgents

(* the sockets of the service that are connecting or open *)
LiveSockets ==
  {s \in DOMAIN client.sockets :
     client.sockets[s].readyState \in {"CONNECTING", "OPEN"}}

(* C23: a subscribe(runId) of useAgentStream made while the socket is not   *)
(* open yet has reached the gateway once that socket is open.               *)
C23_SubscribeSurvivesConnecting ==
  \A r \in ClientRuns :
    (askedOn[r] # 0 /\ client.sockets[askedOn[r]].readyState = "OPEN")
    => r \in client.sockets[askedOn[r]].subs

(* C24: once the socket opened by a reconnect is open, the gateway holds    *)
(* for it every run the client had subscribed to and not unsubscribed.      *)
C24_ResubscribedAfterReconnect ==
  (WsIsOpen(client) /\ client.sockets[client.ws].by = "timer")
  => wanted \subseteq client.sockets[client.ws].subs

(* C25: from disconnect() to the next connect() by a user of the service    *)
(* no reconnect timer is set and no WebSocket is created.                   *)
C25_NoReconnectAfterDisconnect ==
  [][(disconnected /\ disconnected')
     => /\ client'.timers <= client.timers
        /\ Len(client'.sockets) = Len(client.sockets)]_vars

(* C26: at most one socket of the service is connecting or open.            *)
C26_SingleLiveSocket == Cardinality(LiveSockets) <= 1

(* C28: reconnectAttempts and the timers set since the last open never      *)
(* exceed maxReconnects, an open sets the count back to 0, and the timer    *)
(* set when the count becomes n has the delay min(1000 * 2^n, 30000), which *)
(* never exceeds 30000 and never decreases as n grows.                      *)
C28_BoundedReconnect ==
  [][/\ client'.reconnectAttempts <= maxReconnects
     /\ client'.scheduled <= maxReconnects
     /\ wsOp'.op = "open" => client'.reconnectAttempts = 0
     /\ client'.scheduled > client.scheduled
          => /\ client.reconnectAttempts < maxReconnects
             /\ client'.reconnectAttempts = client.reconnectAttempts + 1
             /\ client'.scheduled = client.scheduled + 1
             /\ client'.lastDelay =
                  Min(1000 * Pow2(client'.reconnectAttempts), 30000)
             /\ client'.lastDelay <= 30000
     /\ \A n \in 1..(maxReconnects - 1) : Delay(n) <= Delay(n + 1)]_vars

(* C28 witness: the count has reached maxReconnects with the longest delay, *)
(* the last timer has fired, its connect() has failed and no timer is set.  *)
C28_Witness ==
  /\ client.reconnectAttempts = maxReconnects
  /\ client.scheduled = maxReconnects
  /\ client.lastDelay = 30000
  /\ wsOp.op = "timer"
  /\ client.timers = 0

(* the handlers of the hook that wsService holds *)
LiveHandlers(hs) == {i \in DOMAIN hs : hs[i].live}

(* what the page shows of the run the hook follows *)
Shown(st) ==
  [steps |-> st.steps, isRunning |-> st.isRunning,
   finalPost |-> st.finalPost, error |-> st.error]

(* C27: the hook has no handler registered for a run other than the one    *)
(* it subscribed to last, and an event of such a run changes nothing of    *)
(* steps, isRunning, finalPost and error.                                   *)
C27_OneHandlerPerHook ==
  [][/\ \A i \in LiveHandlers(handlers') :
          handlers'[i].run = handlers'[Len(handlers')].run
     /\ (/\ lastEvent'.run # 0
         /\ handlers # <<>>
         /\ lastEvent'.run # handlers[Len(handlers)].run)
        => Shown(stream') = Shown(stream)]_vars

(* C29: a request is refreshed for and replayed at most once; a 401 on the  *)
(* replay is rejected to the caller with nothing refreshed again; and when  *)
(* the refresh fails both tokens are gone from storage and the error of the *)
(* original request is the one rejected.                                    *)
C29_ReplayAtMostOnce ==
  /\ \A k \in Calls : calls[k].refreshes <= 1 /\ calls[k].replays <= 1
  /\ lastAuth.refreshes <= 1 /\ lastAuth.replays <= 1
  /\ (lastAuth.stage = "replayed" /\ lastAuth.status = 401)
       => /\ lastAuth.result = "rejected"
          /\ lastAuth.error = "replay"
          /\ lastAuth.refreshes = 1 /\ lastAuth.replays = 1
          /\ calls[lastAuth.call] = Idle
  /\ (lastAuth.stage = "refreshing" /\ lastAuth.status = 401)
       => /\ storage = NoTokens
          /\ lastAuth.result = "rejected"
          /\ lastAuth.error = "original"
          /\ lastAuth.replays = 0
          /\ calls[lastAuth.call] = Idle

(* C29 witness: the replay of a request was answered 401 and rejected to    *)
(* the caller while a refresh token is still in storage.                    *)
C29_Witness ==
  /\ lastAuth.stage = "replayed" /\ lastAuth.status = 401
  /\ lastAuth.result = "rejected"
  /\ lastAuth.op = "fetch"
  /\ storage = Tokens

(* C30: while the page is not being replaced, isAuthenticated is true only  *)
(* with an access token in storage; and from logout() or a failed           *)
(* loadUser() to the next login or registration both tokens are absent,     *)
(* user is null and isAuthenticated is false.                               *)
C30_AuthMatchesStorage ==
  /\ (auth.isAuthenticated /\ ~navigating) => storage.access_token
  /\ signedOut => /\ storage = NoTokens
                  /\ auth.user = "null"
                  /\ ~auth.isAuthenticated
====
